---------------------------- MODULE Spec2Model ----------------------------
(***************************************************************************)
(* Waveline-BG (src/src/waveline-bg.js): the seeded sine field, the        *)
(* threshold planner, the contour-to-path renderer, the SVG composer and  *)
(* the DOM attachment, as a state machine over the library's two public   *)
(* operations, generateSvg and apply.                                      *)
(*                                                                         *)
(* Numbers.  JavaScript numbers are modelled exactly where the code's      *)
(* arithmetic is rational: a real is a normalised fraction <<n, d>>, d > 0.*)
(* 32-bit words are pairs <<hi, lo>> of 16-bit halves, because TLC        *)
(* itself computes in 32-bit signed integers.  Math.sin is a 16-entry      *)
(* table over the turn, scaled by 1000 (see Sin16).  Math.pow is exact for *)
(* the whole exponents that bias -1, 0 and 1 produce.  Rounding of IEEE    *)
(* doubles is outside the model.                                           *)
(***************************************************************************)
EXTENDS Integers, Sequences, FiniteSets, TLC

\* ------------------------------------------------------------------------
\* Rationals
\* ------------------------------------------------------------------------
RECURSIVE GCD(_, _)
GCD(a, b) == IF b = 0 THEN a ELSE GCD(b, a % b)

Abs(x) == IF x < 0 THEN -x ELSE x

\* The normalised fraction n/d (d # 0): positive denominator, lowest terms.
Rat(n, d) ==
  LET g == GCD(Abs(n), Abs(d))
      s == IF d < 0 THEN -1 ELSE 1
  IN  <<s * (n \div g), s * (d \div g)>>

R(n) == <<n, 1>>

LCM(a, b) == (a \div GCD(a, b)) * b

RAdd(x, y) ==
  LET l == LCM(x[2], y[2])
  IN  Rat(x[1] * (l \div x[2]) + y[1] * (l \div y[2]), l)

RNeg(x) == <<-x[1], x[2]>>

RSub(x, y) == RAdd(x, RNeg(y))

\* Cross-cancelled product, so that intermediate values stay small.
RMul(x, y) ==
  LET g1 == GCD(Abs(x[1]), y[2])
      g2 == GCD(Abs(y[1]), x[2])
      a  == IF g1 = 0 THEN 1 ELSE g1
      b  == IF g2 = 0 THEN 1 ELSE g2
  IN  Rat((x[1] \div a) * (y[1] \div b), (x[2] \div b) * (y[2] \div a))

\* x / y for y # 0.
RDiv(x, y) == RMul(x, Rat(y[2], y[1]))

RLt(x, y) ==
  LET l == LCM(x[2], y[2])
  IN  x[1] * (l \div x[2]) < y[1] * (l \div y[2])

RLe(x, y) == x = y \/ RLt(x, y)

RIsZero(x) == x[1] = 0

RECURSIVE RPow(_, _)
\* x^e for a whole exponent e >= 0.
RPow(x, e) == IF e = 0 THEN R(1) ELSE RMul(x, RPow(x, e - 1))

RFloor(x) == x[1] \div x[2]

\* ------------------------------------------------------------------------
\* 32-bit words as <<hi, lo>>, 16 bits each
\* ------------------------------------------------------------------------
RECURSIVE XorN(_, _, _)
XorN(a, b, n) ==
  IF n = 0 THEN 0
  ELSE (((a % 2) + (b % 2)) % 2) + 2 * XorN(a \div 2, b \div 2, n - 1)

RECURSIVE OrN(_, _, _)
OrN(a, b, n) ==
  IF n = 0 THEN 0
  ELSE (IF a % 2 = 1 \/ b % 2 = 1 THEN 1 ELSE 0)
       + 2 * OrN(a \div 2, b \div 2, n - 1)

\* The two operations on 4-bit digits, tabulated once.
XorTable == [a \in 0..15 |-> [b \in 0..15 |-> XorN(a, b, 4)]]

OrTable == [a \in 0..15 |-> [b \in 0..15 |-> OrN(a, b, 4)]]

Xor16(a, b) ==
  XorTable[a % 16][b % 16]
  + 16 * XorTable[(a \div 16) % 16][(b \div 16) % 16]
  + 256 * XorTable[(a \div 256) % 16][(b \div 256) % 16]
  + 4096 * XorTable[a \div 4096][b \div 4096]

Pow2Table == <<2, 4, 8, 16, 32, 64, 128, 256, 512, 1024, 2048, 4096, 8192,
               16384, 32768, 65536>>

Pow2(n) == Pow2Table[n]

Half == Pow2(16)

Xor32(a, b) == <<Xor16(a[1], b[1]), Xor16(a[2], b[2])>>

\* a | c for a constant c below 16 * 16 (the code's t | 1 and t | 61).
OrLow32(a, c) ==
  <<a[1], OrTable[a[2] % 16][c % 16]
          + 16 * OrTable[(a[2] \div 16) % 16][c \div 16]
          + 256 * (a[2] \div 256)>>

\* a >>> s for 0 < s < 16.
Shr32(a, s) ==
  <<a[1] \div Pow2(s), (a[2] \div Pow2(s)) + (a[1] % Pow2(s)) * Pow2(16 - s)>>

Add32(a, b) ==
  LET lo == a[2] + b[2]
  IN  <<(a[1] + b[1] + (lo \div Half)) % Half, lo % Half>>

\* Math.imul: the low 32 bits of the product, by bytes.
Imul(a, b) ==
  LET a0 == a[2] % 256   a1 == a[2] \div 256
      a2 == a[1] % 256   a3 == a[1] \div 256
      b0 == b[2] % 256   b1 == b[2] \div 256
      b2 == b[1] % 256   b3 == b[1] \div 256
      c0 == a0 * b0
      c1 == a0 * b1 + a1 * b0 + (c0 \div 256)
      c2 == a0 * b2 + a1 * b1 + a2 * b0 + (c1 \div 256)
      c3 == a0 * b3 + a1 * b2 + a2 * b1 + a3 * b0 + (c2 \div 256)
  IN  <<(c2 % 256) + 256 * (c3 % 256), (c0 % 256) + 256 * (c1 % 256)>>

\* ------------------------------------------------------------------------
\* JavaScript integers beyond 31 bits: [neg, top, hi, lo] is the integer
\* (neg ? -1 : 1) * (top * 2^32 + hi * 65536 + lo), 0 <= lo < 65536,
\* hi >= 0, top >= 0.
\* ------------------------------------------------------------------------
JsBig(neg, top, hi, lo) == [neg |-> neg, top |-> top, hi |-> hi, lo |-> lo]

JsInt(n) == JsBig(n < 0, 0, Abs(n) \div Half, Abs(n) % Half)

\* A faulty variant of ToUint32: the sign is dropped.
ToUint32Slip(s) == <<s.hi % Half, s.lo>>

\* seed >>> 0: ToUint32 of an integer-valued number (the multiples of 2^32
\* in top fall away).
ToUint32(s) ==
  LET h == s.hi % Half
  IN  IF ~s.neg \/ (h = 0 /\ s.lo = 0) THEN <<h, s.lo>>
      ELSE IF s.lo = 0 THEN <<Half - h, 0>>
      ELSE <<Half - 1 - h, Half - s.lo>>

\* ------------------------------------------------------------------------
\* PRNG
\* ------------------------------------------------------------------------
\* The closure variable of mulberry32 is a double that the code never
\* reduces: the accumulator is <<hi, lo>> with an unbounded hi.
mulberry32(seedWord) == seedWord

\* Line 29: ((t ^ t >>> 14) >>> 0), the word k of the returned k / 2^32.
Mix3(t) == Xor32(t, Shr32(t, 14))

\* Line 28: t ^= t + Math.imul(t ^ t >>> 7, t | 61).
Mix2(t) ==
  Mix3(Xor32(t, Add32(t, Imul(Xor32(t, Shr32(t, 7)), OrLow32(t, 61)))))

\* Line 27: t = Math.imul(t ^ t >>> 15, t | 1).
Mix1(t) == Mix2(Imul(Xor32(t, Shr32(t, 15)), OrLow32(t, 1)))

\* The bit operations see the accumulator modulo 2^32.
Mixed(acc) == [acc |-> acc, out |-> Mix1(<<acc[1] % Half, acc[2]>>)]

\* A faulty variant of rnd: the carry out of the low half is lost.
rndSlip(acc) ==
  Mixed(<<acc[1] + 27947, (acc[2] + 31221) % Half>>)

\* One call of the closure: seed += 0x6D2B79F5 (line 26), then the mixing.
\* Returns the advanced accumulator and the word k whose value k / 2^32 the
\* closure returns.
rnd(acc) ==
  Mixed(<<acc[1] + 27947 + ((acc[2] + 31221) \div Half),
          (acc[2] + 31221) % Half>>)

\* ------------------------------------------------------------------------
\* Scalar field
\* ------------------------------------------------------------------------
\* Math.sin over one turn in 16 steps, times 1000.
SinTable ==
  <<0, 383, 707, 924, 1000, 924, 707, 383,
    0, -383, -707, -924, -1000, -924, -707, -383>>

\* rnd() * Math.PI * 2 as a fraction of the turn: the word's top 8 bits
\* out of 256 (the table's resolution needs no more).
Phase(word) == Rat(word[1] \div 256, 256)

\* 1000 * Math.sin(2 * Math.PI * turns): the table entry of the sixteenth
\* of the turn that the angle falls in.
Sin16(turns) ==
  LET frac == Rat(turns[1] % turns[2], turns[2])
  IN  SinTable[(RFloor(RMul(R(16), frac)) % 16) + 1]

\* The value pushed for column i, row j (lines 61-67), exactly as a
\* fraction: (v1 + v2 + v3) * amplitude with every sine taken from Sin16.
CellValue(i, j, gridW, gridH, f, amplitude, phase1, phase2, phase3) ==
  LET nx  == RSub(Rat(i, gridW), Rat(1, 2))
      ny  == RSub(Rat(j, gridH), Rat(1, 2))
      s1  == Sin16(RAdd(RMul(nx, f), phase1))
      s2  == Sin16(RAdd(RMul(ny, RMul(f, Rat(9, 10))), phase2))
      s3  == Sin16(RAdd(RMul(RAdd(nx, ny), RMul(f, Rat(7, 10))), phase3))
      s4  == Sin16(RSub(RMul(RSub(nx, ny), RMul(f, Rat(5, 10))), phase2))
      \* v1 = s1 + s2, v2 = 0.6 * s3, v3 = 0.4 * s4, all over 1000
      sum == Rat(10 * s1 + 10 * s2 + 6 * s3 + 4 * s4, 10000)
  IN  RMul(sum, amplitude)

RECURSIVE RowLoop(_, _, _, _, _, _, _, _, _)
\* The outer loop (line 58) over rows j .. j + rows - 1: each row appends
\* its gridW values (the inner loop, line 59, in column order) to what the
\* rows before it pushed.
RowLoop(j, rows, gridW, gridH, f, amplitude, phase1, phase2, phase3) ==
  IF rows <= 0 THEN <<>>
  ELSE IF rows = 1
  THEN [i1 \in 1..gridW |->
          CellValue(i1 - 1, j, gridW, gridH, f, amplitude,
                    phase1, phase2, phase3)]
  ELSE RowLoop(j, rows \div 2, gridW, gridH, f, amplitude,
               phase1, phase2, phase3)
       \o RowLoop(j + (rows \div 2), rows - (rows \div 2), gridW, gridH, f,
                  amplitude, phase1, phase2, phase3)

\* Lines 53-56, one draw at a time.
Drawn3(gridW, gridH, freq, amplitude, phase1, phase2, r3) ==
  RowLoop(0, gridH, gridW, gridH, RDiv(freq, R(10)), amplitude,
          phase1, phase2, Phase(r3.out))

Drawn2(gridW, gridH, freq, amplitude, phase1, r2) ==
  Drawn3(gridW, gridH, freq, amplitude, phase1, Phase(r2.out), rnd(r2.acc))

Drawn1(gridW, gridH, freq, amplitude, r1) ==
  Drawn2(gridW, gridH, freq, amplitude, Phase(r1.out), rnd(r1.acc))

\* generateField: three draws from a fresh stream, then the grid.  seed is
\* a JsInt, freq and amplitude fractions, gridW and gridH whole numbers.
generateField(gridW, gridH, freq, amplitude, seed) ==
  Drawn1(gridW, gridH, freq, amplitude, rnd(mulberry32(ToUint32(seed))))

\* ------------------------------------------------------------------------
\* Contour -> SVG path
\* ------------------------------------------------------------------------
\* Number.prototype.toFixed(3): the sign, then the magnitude rounded to the
\* nearest thousandth, ties to the larger digit string.
ToFixed3(v) ==
  LET m == IF v[1] < 0 THEN RNeg(v) ELSE v
  IN  [neg    |-> v[1] < 0,
       digits |-> RFloor(RAdd(RMul(m, R(1000)), Rat(1, 2)))]

\* A faulty variant of RingPoints, to test that C9_PathShape tells them apart.
RingPointsSlip(ring, sx, sy, ox, oy) ==
  [n \in 1..Len(ring) |->
     [cmd |-> IF n - 1 = 1 THEN "M" ELSE "L",
      x   |-> ToFixed3(RSub(RMul(ring[n][1], sx), ox)),
      y   |-> ToFixed3(RSub(RMul(ring[n][2], sy), oy))]]

\* The inner forEach (lines 93-97): 'M ' or 'L ', x.toFixed(3), ' ',
\* y.toFixed(3), ' ' for each point.  A path string is modelled as its
\* sequence of commands; the separating blanks (and the final trim) carry
\* nothing.
RingPoints(ring, sx, sy, ox, oy) ==
  [n \in 1..Len(ring) |->
     [cmd |-> IF n - 1 = 0 THEN "M" ELSE "L",
      x   |-> ToFixed3(RSub(RMul(ring[n][1], sx), ox)),
      y   |-> ToFixed3(RSub(RMul(ring[n][2], sy), oy))]]

RECURSIVE PolyLoop(_, _, _, _, _, _, _)
\* poly.forEach(ring) over rings r .. r + count - 1: each ring's points,
\* then 'Z ' (line 98), after what the rings before it added.
PolyLoop(poly, r, count, sx, sy, ox, oy) ==
  IF count <= 0 THEN <<>>
  ELSE IF count = 1
  THEN RingPoints(poly[r], sx, sy, ox, oy) \o <<[cmd |-> "Z"]>>
  ELSE PolyLoop(poly, r, count \div 2, sx, sy, ox, oy)
       \o PolyLoop(poly, r + (count \div 2), count - (count \div 2),
                   sx, sy, ox, oy)

RECURSIVE CoordLoop(_, _, _, _, _, _, _)
\* contour.coordinates.forEach(poly) (line 91) over polygons p .. p + count
\* - 1, in order.
CoordLoop(coordinates, p, count, sx, sy, ox, oy) ==
  IF count <= 0 THEN <<>>
  ELSE IF count = 1
  THEN PolyLoop(coordinates[p], 1, Len(coordinates[p]), sx, sy, ox, oy)
  ELSE CoordLoop(coordinates, p, count \div 2, sx, sy, ox, oy)
       \o CoordLoop(coordinates, p + (count \div 2), count - (count \div 2),
                    sx, sy, ox, oy)

contourToPath(contour, sx, sy, ox, oy) ==
  CoordLoop(contour.coordinates, 1, Len(contour.coordinates), sx, sy, ox, oy)

\* ------------------------------------------------------------------------
\* Bias
\* ------------------------------------------------------------------------
\* Math.pow(u, e) for the whole exponents e that whole biases produce.
Pow(u, e) == RPow(u, e[1])

\* A faulty variant of applyBias, to test that C3_NonFlat tells them apart.
applyBiasSlip(u, bias) ==
  IF RIsZero(bias) THEN u
  ELSE IF RLt(R(0), bias) THEN Pow(u, RAdd(R(1), bias))
  ELSE Pow(RSub(R(1), u), RSub(R(1), bias))

applyBias(u, bias) ==
  IF RIsZero(bias) THEN u
  ELSE IF RLt(R(0), bias) THEN Pow(u, RAdd(R(1), bias))
  ELSE RSub(R(1), Pow(RSub(R(1), u), RSub(R(1), bias)))

\* ------------------------------------------------------------------------
\* The contour extraction the page loaded (d3.contours), an external
\* collaborator: some deterministic function of the grid, its size and the
\* thresholds.  Two stand-ins are enough to tell what the library does
\* from what its collaborator does.
\* ------------------------------------------------------------------------
\* The cells of row j at or above the threshold, as points at cell centres.
RowRing(field, gridW, j, level) ==
  LET AtOrAbove(i) == RLe(level, field[j * gridW + i + 1])
      cols == SelectSeq([i \in 1..gridW |-> i - 1], AtOrAbove)
  IN  [n \in 1..Len(cols) |-> <<Rat(2 * cols[n] + 1, 2), Rat(2 * j + 1, 2)>>]

\* The non-empty row rings, top row first.
RowRings(field, gridW, gridH, j, level) ==
  LET NonEmpty(ring) == ring # <<>>
  IN  SelectSeq([r \in 1..(gridH - j) |->
                   RowRing(field, gridW, j + r - 1, level)], NonEmpty)

\* One MultiPolygon for a threshold.  "pairs": polygons of two rings each
\* (an outline and a hole), the last one of one ring when the count is
\* odd; "odd": one polygon holding every ring.
MultiPolygon(kind, level, rings) ==
  [value       |-> level,
   coordinates |->
     IF kind = "pairs"
     THEN [p \in 1..((Len(rings) + 1) \div 2) |->
             IF 2 * p <= Len(rings) THEN <<rings[2 * p - 1], rings[2 * p]>>
             ELSE <<rings[2 * p - 1]>>]
     ELSE IF rings = <<>> THEN <<>> ELSE <<rings>>]

Contour(kind, field, gridW, gridH, level) ==
  MultiPolygon(kind, level, RowRings(field, gridW, gridH, 0, level))

\* Every second element of a sequence, from the first.
OddOnes(all) == [k \in 1..((Len(all) + 1) \div 2) |-> all[2 * k - 1]]

\* d3.contours().size([gridW, gridH]).smooth(true).thresholds(levels)(field).
\* "pairs" answers one contour per threshold, in threshold order, as
\* d3-contour does; "odd" answers only for the 1st, 3rd, ... threshold.
Contours(kind, field, gridW, gridH, levels) ==
  IF kind = "odd"
  THEN OddOnes([k \in 1..Len(levels) |->
                  Contour(kind, field, gridW, gridH, levels[k])])
  ELSE [k \in 1..Len(levels) |->
          Contour(kind, field, gridW, gridH, levels[k])]

D3Kinds == {"pairs", "odd"}

\* ------------------------------------------------------------------------
\* SVG generation
\* ------------------------------------------------------------------------
\* An options object is a record holding the supplied keys only:
\* options.k !== undefined is k \in DOMAIN options.
Has(options, k) == k \in DOMAIN options

\* options.k || dflt for a fraction-valued key: undefined and 0 are falsy.
OrRat(options, k, dflt) ==
  IF Has(options, k) /\ ~RIsZero(options[k]) THEN options[k] ELSE dflt

\* options.k || dflt for a whole-number key.
OrInt(options, k, dflt) ==
  IF Has(options, k) /\ options[k] # 0 THEN options[k] ELSE dflt

\* options.k !== undefined ? options.k : dflt
Given(options, k, dflt) == IF Has(options, k) THEN options[k] ELSE dflt

\* options.k || dflt for a colour string: undefined and '' are falsy.
OrStr(options, k, dflt) ==
  IF Has(options, k) /\ options[k] # "" THEN options[k] ELSE dflt

\* Lines 136-157, one reader per local.
WidthOf(options)       == OrRat(options, "width", R(100))
HeightOf(options)      == OrRat(options, "height", Rat(5625, 100))
GridWidthOf(options)   == OrInt(options, "gridWidth", 160)
GridHeightOf(options)  == OrInt(options, "gridHeight", 90)
DensityOf(options)     == OrInt(options, "density", 10)
\* A faulty variant of FreqOf: a supplied 0 is used as given.
FreqOfSlip(options) == Given(options, "freq", R(5))

FreqOf(options)        == OrRat(options, "freq", R(5))

\* A faulty variant of AmplitudeOf, to test C5_StyleIndependent.
AmplitudeOfSlip(options) == OrRat(options, "opacityMax", R(1))

AmplitudeOf(options)   == OrRat(options, "amplitude", R(1))
StrokeMinOf(options)   == Given(options, "strokeMin", Rat(16, 100))
StrokeMaxOf(options)   == Given(options, "strokeMax", Rat(26, 100))
OpacityMinOf(options)  == Given(options, "opacityMin", Rat(5, 10))
OpacityMaxOf(options)  == Given(options, "opacityMax", R(1))
BiasOf(options)        == OrRat(options, "bias", R(0))
StrokeColorOf(options) == OrStr(options, "strokeColor", "#888888")
BgColorOf(options)     == OrStr(options, "backgroundColor", "transparent")

\* A faulty variant of SeedOf (seed 0 taken as missing), to test C1_Idempotent.
SeedOfSlip(options, random) ==
  IF Has(options, "seed") /\ options.seed # JsInt(0)
  THEN options.seed ELSE JsInt(random)

\* Line 155.  random is what Math.floor(Math.random() * 1e9) would give.
SeedOf(options, random) == Given(options, "seed", JsInt(random))

\* seed % 999983 (line 196): the remainder takes the dividend's sign.
ClipNumber(seed) ==
  LET t1 == ((seed.top % 999983) * 256) % 999983
      t2 == (t1 * 256) % 999983
      h1 == (((t2 + seed.hi) % 999983) * 256) % 999983
      h2 == (h1 * 256) % 999983
      m  == (h2 + seed.lo) % 999983
  IN  IF seed.neg THEN -m ELSE m

\* Math.min.apply(null, field) and Math.max.apply(null, field).
MinOf(field) ==
  CHOOSE m \in {field[n] : n \in DOMAIN field} :
    \A n \in DOMAIN field : RLe(m, field[n])

MaxOf(field) ==
  CHOOSE m \in {field[n] : n \in DOMAIN field} :
    \A n \in DOMAIN field : RLe(field[n], m)

\* A faulty variant of Levels, to test C4_PositiveDensity.
LevelsSlip(min, max, density, bias) ==
  [k \in 1..(density - 1) |->
     RAdd(min, RMul(applyBias(Rat(k, density + 1), bias), RSub(max, min)))]

\* Lines 181-185: for k = 1..density push min + applyBias(u, bias)*(max-min).
Levels(min, max, density, bias) ==
  [k \in 1..density |->
     RAdd(min, RMul(applyBias(Rat(k, density + 1), bias), RSub(max, min)))]

\* A faulty variant of NormPos, to test C7_Interpolation.
NormPosSlip(idx, length) == Rat(idx, IF length # 0 THEN length ELSE 1)

\* idx / (contourData.length - 1 || 1), line 212.
NormPos(idx, length) ==
  Rat(idx, IF length - 1 # 0 THEN length - 1 ELSE 1)

\* Lines 214-215.
StrokeWidth(strokeMin, strokeMax, t) ==
  RAdd(strokeMin, RMul(RSub(strokeMax, strokeMin), t))

StrokeOpacity(opacityMin, opacityMax, t) ==
  RAdd(opacityMin, RMul(RSub(opacityMax, opacityMin), RSub(R(1), t)))

\* Lines 168-173: the bleed of 0.10 on each side.
OffsetOf(size) == RMul(size, Rat(1, 10))

\* A faulty variant of ScaleOf, to test C10_Bleed.
ScaleOfSlip(size, grid) ==
  RDiv(RMul(size, RAdd(R(1), RMul(Rat(1, 10), R(2)))), R(grid))

ScaleOf(size, grid) ==
  RDiv(RMul(size, RAdd(R(1), RMul(Rat(1, 10), R(2)))), R(grid - 1))

\* Lines 211-223: one path per contour, in the order of contourData.
PathOf(options, contourData, n) ==
  [d             |-> contourToPath(contourData[n],
                       ScaleOf(WidthOf(options), GridWidthOf(options)),
                       ScaleOf(HeightOf(options), GridHeightOf(options)),
                       OffsetOf(WidthOf(options)), OffsetOf(HeightOf(options))),
   stroke        |-> StrokeColorOf(options),
   strokeWidth   |-> StrokeWidth(StrokeMinOf(options), StrokeMaxOf(options),
                                 NormPos(n - 1, Len(contourData))),
   strokeOpacity |-> StrokeOpacity(OpacityMinOf(options), OpacityMaxOf(options),
                                   NormPos(n - 1, Len(contourData)))]

\* Lines 196-226: the document.  Numbers written into the markup by string
\* concatenation stay numbers: that conversion loses nothing, unlike
\* toFixed.
Document(options, seed, contourData) ==
  [viewBox  |-> <<WidthOf(options), HeightOf(options)>>,
   clipId   |-> <<"wlbg-", ClipNumber(seed)>>,
   clipRect |-> <<WidthOf(options), HeightOf(options)>>,
   bgRect   |-> [width |-> WidthOf(options), height |-> HeightOf(options),
                 fill |-> BgColorOf(options)],
   clipPath |-> <<"wlbg-", ClipNumber(seed)>>,
   paths    |-> [n \in 1..Len(contourData) |-> PathOf(options, contourData, n)]]

\* What a call that did not throw computed, and the document it returns.
Returned(options, seed, field, min, max, levels, contourData) ==
  [threw  |-> FALSE,
   seed   |-> seed,
   scale  |-> <<ScaleOf(WidthOf(options), GridWidthOf(options)),
                ScaleOf(HeightOf(options), GridHeightOf(options))>>,
   offset |-> <<OffsetOf(WidthOf(options)), OffsetOf(HeightOf(options))>>,
   field  |-> field,
   range  |-> <<min, max>>,
   levels |-> levels,
   contourData |-> contourData,
   svg    |-> Document(options, seed, contourData)]

\* Lines 188-191.
Extracted(options, seed, d3, field, min, max, levels) ==
  Returned(options, seed, field, min, max, levels,
           Contours(d3, field, GridWidthOf(options), GridHeightOf(options),
                    levels))

\* Lines 177-185.
Planned(options, seed, d3, field, min, max) ==
  Extracted(options, seed, d3, field, min, max,
            Levels(min, max, DensityOf(options), BiasOf(options)))

Measured(options, seed, d3, field) ==
  Planned(options, seed, d3, field, MinOf(field), MaxOf(field))

\* Line 176.
Generated(options, seed, d3) ==
  Measured(options, seed, d3,
           generateField(GridWidthOf(options), GridHeightOf(options),
                         FreqOf(options), AmplitudeOf(options), seed))

\* generateWavelineSvg(options) with the global d3 and the next value of
\* Math.random as explicit inputs.  The answer records whether the call
\* threw (line 159, after the options are read and before anything is
\* computed), the locals the call computed, and the document.
generateWavelineSvg(options, random, d3) ==
  IF d3 = "missing"
  THEN [threw |-> TRUE]
  ELSE Generated(options, SeedOf(options, random), d3)

\* ------------------------------------------------------------------------
\* State
\* ------------------------------------------------------------------------
VARIABLES
  d3,        \* the global d3: "missing", or the extraction that was loaded
  options,   \* the options object the caller passes
  last,      \* the latest call of generateSvg or apply, and its outcome
  element,   \* the DOM element apply is given
  gens,      \* the calls of generateField under way, each with its closure
  page       \* the demo page: its controls and the elements it decorates

vars == <<d3, options, last, element, gens, page>>

\* ------------------------------------------------------------------------
\* Inputs
\* ------------------------------------------------------------------------
MaxDensity == 3
MaxGrid == 3
MaxChildren == 3

Empty == [k \in {} |-> 0]

\* b's keys over a's.
Merge(a, b) ==
  [k \in DOMAIN a \cup DOMAIN b |-> IF k \in DOMAIN b THEN b[k] ELSE a[k]]

StyleKeys ==
  {"strokeColor", "strokeMin", "strokeMax", "opacityMin", "opacityMax",
   "backgroundColor"}

TerrainOf(o) == [k \in DOMAIN o \ StyleKeys |-> o[k]]

StyleOf(o) == [k \in DOMAIN o \cap StyleKeys |-> o[k]]

Styles ==
  { Empty,
    [strokeMin |-> Rat(1, 10), strokeMax |-> Rat(3, 10),
     opacityMin |-> Rat(1, 5), opacityMax |-> Rat(4, 5),
     strokeColor |-> "#ff0000", backgroundColor |-> "#ffffff"] }

\* Seeds of the documented range 0 .. 2^32 - 1, both ends included.
Seeds ==
  {JsInt(0), JsInt(12345), JsInt(999983), JsBig(FALSE, 0, Half - 1, Half - 1)}

\* What Math.floor(Math.random() * 1e9) may give.
RandomDraws == {0, 999983}

\* Each seed, and none, on the smallest grid.
SeedOptions ==
  { Merge(Merge([gridWidth |-> 2, gridHeight |-> 2], s), [density |-> 2]) :
      s \in {Empty} \cup {[seed |-> x] : x \in Seeds} }

\* Each density a caller may pass, zero and a negative one included.
DensityOptions ==
  { [gridWidth |-> 2, gridHeight |-> 2, seed |-> JsInt(12345), density |-> n] :
      n \in (-1)..MaxDensity }

\* Threshold plans: bias and density over three terrains, the second of
\* which is flat (every wave has a whole number of periods per cell).
PlanOptions ==
  { Merge(t, [bias |-> R(b), density |-> n, seed |-> JsInt(12345)]) :
      t \in { [gridWidth |-> 2, gridHeight |-> 2],
              [gridWidth |-> 2, gridHeight |-> 2, freq |-> R(200)],
              [gridWidth |-> MaxGrid, gridHeight |-> MaxGrid] },
      b \in {-1, 0, 1}, n \in 1..MaxDensity }

\* Viewports and grids.
SizeOptions ==
  { Merge(Merge(g, w), [density |-> 2, seed |-> JsInt(999983),
                        amplitude |-> Rat(6, 5)]) :
      g \in { [gridWidth |-> 2, gridHeight |-> MaxGrid],
              [gridWidth |-> MaxGrid, gridHeight |-> 2] },
      w \in { Empty, [width |-> R(200), height |-> R(100)],
              [width |-> Rat(1, 2)] } }

\* One option, or two of the stroke options, supplied as 0.
ZeroOptions ==
  { Merge([gridWidth |-> 2, gridHeight |-> 2, density |-> 2,
           seed |-> JsInt(12345)], z) :
      z \in { [width |-> R(0)], [height |-> R(0)], [gridWidth |-> 0],
              [gridHeight |-> 0], [density |-> 0], [freq |-> R(0)],
              [amplitude |-> R(0)],
              [strokeMin |-> R(0), opacityMin |-> R(0)],
              [strokeMax |-> R(0), opacityMax |-> R(0)] } }

OptionSet ==
  SeedOptions \cup DensityOptions \cup PlanOptions \cup SizeOptions
  \cup ZeroOptions

\* ------------------------------------------------------------------------
\* Operations
\* ------------------------------------------------------------------------
NoCall == [op |-> "none"]

\* Pairs of integers a caller may pass as seed that are congruent modulo
\* 2^32: -1 with 2^32 - 1, and 999983 * 2^32 with 0.
SeedPairs ==
  { {JsInt(-1), JsBig(FALSE, 0, Half - 1, Half - 1)},
    {JsBig(FALSE, 999983, 0, 0), JsInt(0)} }

WideSeeds == UNION SeedPairs

SeedlessOf(o) == [k \in DOMAIN o \ {"seed"} |-> o[k]]

\* Two options objects that differ in the seed only, the two seeds being
\* congruent modulo 2^32.
Congruent(a, b) ==
  /\ Has(a, "seed") /\ Has(b, "seed")
  /\ {a.seed, b.seed} \in SeedPairs
  /\ SeedlessOf(a) = SeedlessOf(b)

\* How this call's arguments compare with the previous call's.
Relation(prev, opts, lib) ==
  IF prev.op = "none" \/ prev.d3 # lib THEN "other"
  ELSE IF prev.options = opts THEN "same"
  ELSE IF TerrainOf(prev.options) = TerrainOf(opts) THEN "restyled"
  ELSE IF Congruent(prev.options, opts) THEN "congruent"
  ELSE "other"

Init ==
  /\ d3 \in {"missing"} \cup D3Kinds
  /\ options \in OptionSet
  /\ last = NoCall
  /\ element = [style |-> Empty, sheet |-> "static", children |-> <<>>]
  /\ gens = <<>>
  /\ page = <<>>

\* The caller builds another options object that differs in presentation
\* keys only.
Restyle(style) ==
  /\ Merge(TerrainOf(options), style) # options
  /\ options' = Merge(TerrainOf(options), style)
  /\ UNCHANGED <<d3, last, element, gens, page>>

\* The caller builds another options object that differs in the seed only,
\* by a multiple of 2^32.
Reseed(seed) ==
  /\ Congruent(options, Merge(options, [seed |-> seed]))
  /\ options' = Merge(options, [seed |-> seed])
  /\ UNCHANGED <<d3, last, element, gens, page>>

\* A faulty variant of OptionsAfter: the seed the call settled on is stored
\* in the caller's object.
OptionsAfterSlip(opts, result) ==
  IF result.threw THEN opts ELSE Merge(opts, [seed |-> result.seed])

\* The caller's object after a call.  Line 133 rebinds the parameter only;
\* lines 136-157 and 252-256 read options.x and assign locals.
OptionsAfter(opts, result) == opts

\* WavelineBG.generateSvg(options).
GenerateSvg(random) ==
  /\ \E result \in {generateWavelineSvg(options, random, d3)} :
       /\ last' = [op       |-> "generateSvg",
                   options  |-> options,
                   d3       |-> d3,
                   relation |-> Relation(last, options, d3),
                   result   |-> result]
       /\ options' = OptionsAfter(options, result)
  /\ UNCHANGED <<d3, element, gens, page>>

Next ==
  \/ \E style \in Styles : Restyle(style)
  \/ \E seed \in WideSeeds : Reseed(seed)
  \/ \E random \in RandomDraws : GenerateSvg(random)

Spec == Init /\ [][Next]_vars

\* ------------------------------------------------------------------------
\* The DOM side: apply
\* ------------------------------------------------------------------------
\* window.getComputedStyle(element).position: the inline style when set,
\* else what the style sheets give.
ComputedPosition(el) ==
  IF "position" \in DOMAIN el.style THEN el.style.position ELSE el.sheet

\* Lines 267-280: the wrapper and the svg element parsed from the string.
Wrapper(svg) ==
  [tag      |-> "div",
   style    |-> [position |-> "absolute", inset |-> "0", zIndex |-> "-1",
                 pointerEvents |-> "none", overflow |-> "hidden"],
   svg      |-> svg,
   svgStyle |-> [width |-> "100%", height |-> "100%", display |-> "block"]]

\* Lines 260-264.  encodeURIComponent loses nothing: the image is the
\* document under the data-URI prefix.
DataUrlStyle(svg) ==
  [backgroundImage    |-> <<"url(data:image/svg+xml;charset=UTF-8,", svg>>,
   backgroundSize     |-> "cover",
   backgroundPosition |-> "center",
   backgroundRepeat   |-> "no-repeat"]

\* A faulty variant of Attached, to test C2_FailFast.
AttachedSlip(el, mode, result) ==
  IF mode = "dataUrl" \/ mode = ""
  THEN IF result.threw THEN el
       ELSE [el EXCEPT !.style = Merge(el.style, DataUrlStyle(result.svg))]
  ELSE [el EXCEPT
          !.style = IF ComputedPosition(el) \in {"static", ""}
                    THEN Merge(el.style, [position |-> "relative"])
                    ELSE el.style,
          !.children = <<Wrapper(IF result.threw THEN Empty ELSE result.svg)>>
                       \o el.children]

\* A faulty variant of Attached: the wrapper goes after the last child.
AttachedLast(el, mode, result) ==
  IF result.threw THEN el
  ELSE IF mode = "dataUrl" \/ mode = ""
  THEN [el EXCEPT !.style = Merge(el.style, DataUrlStyle(result.svg))]
  ELSE [el EXCEPT
          !.style = IF ComputedPosition(el) \in {"static", ""}
                    THEN Merge(el.style, [position |-> "relative"])
                    ELSE el.style,
          !.children = el.children \o <<Wrapper(result.svg)>>]

\* The element after applyWavelineBackground, given what generateWavelineSvg
\* answered at line 256: its exception leaves the function before any
\* statement that touches the element.  mode "" stands for every falsy mode.
Attached(el, mode, result) ==
  IF result.threw THEN el
  ELSE IF mode = "dataUrl" \/ mode = ""
  THEN [el EXCEPT !.style = Merge(el.style, DataUrlStyle(result.svg))]
  ELSE [el EXCEPT
          !.style = IF ComputedPosition(el) \in {"static", ""}
                    THEN Merge(el.style, [position |-> "relative"])
                    ELSE el.style,
          !.children = <<Wrapper(result.svg)>> \o el.children]

Modes == {"", "dataUrl", "inline"}

DomOptions ==
  { [gridWidth |-> 2, gridHeight |-> 2, density |-> 1, seed |-> JsInt(12345)],
    [gridWidth |-> 2, gridHeight |-> 2, density |-> 2,
     backgroundColor |-> "#ffffff"] }

InitDom ==
  /\ d3 \in {"missing"} \cup D3Kinds
  /\ options \in DomOptions
  /\ last = NoCall
  /\ element \in [style : {Empty}, sheet : {"static", "relative"},
                  children : {<<>>, <<[tag |-> "p"]>>}]
  /\ gens = <<>>
  /\ page = <<>>

\* The page loads d3-contour after all (line 160 asks for it to be loaded
\* before waveline-bg.js; the check at line 159 runs on every call).
LoadD3(kind) ==
  /\ d3 = "missing"
  /\ d3' = kind
  /\ UNCHANGED <<options, last, element, gens, page>>

\* WavelineBG.apply(element, options, mode).
Apply(mode, random) ==
  /\ Len(element.children) < MaxChildren
  /\ \E result \in {generateWavelineSvg(options, random, d3)} :
       /\ last' = [op       |-> "apply",
                   mode     |-> mode,
                   options  |-> options,
                   d3       |-> d3,
                   relation |-> Relation(last, options, d3),
                   result   |-> result]
       /\ element' = Attached(element, mode, result)
       /\ options' = OptionsAfter(options, result)
  /\ UNCHANGED <<d3, gens, page>>

NextDom ==
  \/ \E kind \in D3Kinds : LoadD3(kind)
  \/ \E random \in RandomDraws : GenerateSvg(random)
  \/ \E mode \in Modes, random \in RandomDraws : Apply(mode, random)

SpecDom == InitDom /\ [][NextDom]_vars

\* ------------------------------------------------------------------------
\* generateField one statement at a time
\* ------------------------------------------------------------------------
\* Two calls under way at once.
Gens == {1, 2}

\* The arguments generateField may be called with.
FieldArgs ==
  [gridW : {2, MaxGrid}, gridH : {2}, freq : {R(5)}, amplitude : {R(1)},
   seed : {JsInt(0), JsInt(12345), JsBig(FALSE, 0, Half - 1, Half - 1)}]

\* Line 50-51: the empty values array and a fresh closure over the seed.
Entered(args) ==
  [args   |-> args,
   acc    |-> mulberry32(ToUint32(args.seed)),
   outs   |-> <<>>,
   values |-> <<>>,
   i      |-> 0,
   j      |-> 0]

\* A faulty variant of Advance: one accumulator shared by every closure.
AdvanceShared(gs, g) ==
  [h \in DOMAIN gs |->
     IF h = g
     THEN [gs[h] EXCEPT !.acc = rnd(gs[g].acc).acc,
                        !.outs = Append(gs[g].outs, rnd(gs[g].acc).out)]
     ELSE [gs[h] EXCEPT !.acc = rnd(gs[h].acc).acc]]

\* One of lines 53-55 in generation g: its closure advances its own seed
\* variable and returns a word.
Advance(gs, g) ==
  [gs EXCEPT ![g].acc = rnd(gs[g].acc).acc,
             ![g].outs = Append(gs[g].outs, rnd(gs[g].acc).out)]

\* A faulty variant of PushedValue: row and column exchanged.
PushedValueSlip(gen) ==
  CellValue(gen.j, gen.i, gen.args.gridW, gen.args.gridH,
            RDiv(gen.args.freq, R(10)), gen.args.amplitude,
            Phase(gen.outs[1]), Phase(gen.outs[2]), Phase(gen.outs[3]))

\* Lines 60-66 at the loop counters i, j of the generation.
PushedValue(gen) ==
  CellValue(gen.i, gen.j, gen.args.gridW, gen.args.gridH,
            RDiv(gen.args.freq, R(10)), gen.args.amplitude,
            Phase(gen.outs[1]), Phase(gen.outs[2]), Phase(gen.outs[3]))

\* Lines 58-59: i++ of the inner loop, and at its end j++ of the outer.
Stepped(gen) ==
  IF gen.i + 1 < gen.args.gridW
  THEN [gen EXCEPT !.i = gen.i + 1]
  ELSE [gen EXCEPT !.i = 0, !.j = gen.j + 1]

\* Line 70 is reached: the outer loop has ended.
Returning(gen) == Len(gen.outs) = 3 /\ gen.j >= gen.args.gridH

InitField ==
  /\ d3 = "missing"
  /\ options = Empty
  /\ last = NoCall
  /\ element = [style |-> Empty, sheet |-> "static", children |-> <<>>]
  /\ gens \in [Gens -> {Entered(args) : args \in FieldArgs}]
  /\ page = <<>>

\* var phaseN = rnd() * Math.PI * 2, for N = 1, 2, 3 in turn.
Draw(g) ==
  /\ Len(gens[g].outs) < 3
  /\ gens' = Advance(gens, g)
  /\ UNCHANGED <<d3, options, last, element, page>>

\* values.push(...) and the loop increment.
Push(g) ==
  /\ Len(gens[g].outs) = 3
  /\ gens[g].j < gens[g].args.gridH
  /\ gens' = [gens EXCEPT
                ![g] = Stepped([gens[g] EXCEPT
                          !.values = Append(gens[g].values,
                                            PushedValue(gens[g]))])]
  /\ UNCHANGED <<d3, options, last, element, page>>

NextField ==
  \/ \E g \in Gens : Draw(g)
  \/ \E g \in Gens : Push(g)

SpecField == InitField /\ [][NextField]_vars

\* ------------------------------------------------------------------------
\* The demo page
\* ------------------------------------------------------------------------
\* Lines 489-498: the values resetControls gives the ten controls.
ControlDefaults ==
  [density |-> 10, freq |-> R(5), amplitude |-> R(1), bias |-> R(0),
   strokeMin |-> Rat(16, 100), strokeMax |-> Rat(26, 100),
   opacityMin |-> Rat(1, 2), opacityMax |-> R(1),
   strokeColor |-> "#888888", seed |-> JsInt(12345)]

\* Lines 327-341: the controls' values and a white background.
getConfig(controls) == Merge(controls, [backgroundColor |-> "#ffffff"])

\* The options literals of lines 401-408 / 435-442, 411-416 / 446-451 and
\* 419-428 / 459-468.
BodyConfig(seed) ==
  [density |-> 10, freq |-> R(5), seed |-> seed, strokeColor |-> "#cccccc",
   opacityMin |-> Rat(25, 100), opacityMax |-> Rat(55, 100)]

Demo1Config(seed) ==
  [density |-> 8, freq |-> R(4), seed |-> seed, strokeColor |-> "#aaaaaa"]

Demo2Config(seed) ==
  [density |-> 12, freq |-> R(6), amplitude |-> Rat(12, 10), seed |-> seed,
   strokeColor |-> "#999999", strokeMin |-> Rat(12, 100),
   strokeMax |-> Rat(32, 100), backgroundColor |-> "#ffffff"]

\* What generateWavelineSvg answers on the page, where every call leaves
\* the grid at its default 160 x 90: the failure of line 159, or a document
\* that is named by the options it was generated from.
Rendered(config, lib) ==
  IF lib = "missing" THEN [threw |-> TRUE]
  ELSE [threw |-> FALSE, seed |-> config.seed, svg |-> [of |-> config]]

\* div[style*="position: absolute"]
Matches(child) ==
  /\ child.tag = "div"
  /\ child.style.position = "absolute"

\* Lines 348-351: the first match in document order, if any, is removed.
removeInlineWrapper(el) ==
  IF \E n \in 1..Len(el.children) : Matches(el.children[n])
  THEN LET w == CHOOSE n \in 1..Len(el.children) :
                  /\ Matches(el.children[n])
                  /\ \A m \in 1..(n - 1) : ~Matches(el.children[m])
       IN  [el EXCEPT !.children = SubSeq(el.children, 1, w - 1)
                                   \o SubSeq(el.children, w + 1,
                                             Len(el.children))]
  ELSE el

\* Lines 382-391.  When apply throws, the wrapper is already removed and
\* the config box keeps its text.
updatePreview(pg, lib) ==
  [pg EXCEPT
     !.livePreview = Attached(removeInlineWrapper(pg.livePreview), "inline",
                              Rendered(getConfig(pg.controls), lib)),
     !.configBox = IF lib = "missing" THEN pg.configBox
                   ELSE getConfig(pg.controls)]

\* Lines 397-432: the first apply throws without d3 and ends the handler.
Loaded(pg, lib) ==
  IF lib = "missing" THEN [pg EXCEPT !.loaded = TRUE]
  ELSE updatePreview(
         [pg EXCEPT
            !.loaded = TRUE,
            !.body  = Attached(pg.body, "dataUrl",
                               Rendered(BodyConfig(JsInt(12345)), lib)),
            !.demo1 = Attached(pg.demo1, "dataUrl",
                               Rendered(Demo1Config(JsInt(9999)), lib)),
            !.demo2 = Attached(pg.demo2, "inline",
                               Rendered(Demo2Config(JsInt(5555)), lib))],
         lib)

Blank == [style |-> Empty, sheet |-> "static", children |-> <<[tag |-> "p"]>>]

\* The page once its scripts have run: listeners attached, handlers global,
\* the load event still to come.
InitDemo ==
  /\ d3 \in {"missing", "pairs"}
  /\ options = Empty
  /\ last = NoCall
  /\ element = [style |-> Empty, sheet |-> "static", children |-> <<>>]
  /\ gens = <<>>
  /\ page = [loaded      |-> FALSE,
             controls    |-> ControlDefaults,
             configBox   |-> Empty,
             body        |-> Blank,
             demo1       |-> Blank,
             demo2       |-> Blank,
             livePreview |-> Blank]

\* window load (line 397), once.
Load ==
  /\ ~page.loaded
  /\ page' = Loaded(page, d3)
  /\ UNCHANGED <<d3, options, last, element, gens>>

\* An input event on a control (lines 473-480), the control holding value.
Input(id, value) ==
  /\ page.controls[id] # value
  /\ page' = updatePreview([page EXCEPT !.controls[id] = value], d3)
  /\ UNCHANGED <<d3, options, last, element, gens>>

\* Lines 483-486.
randomSeed(random) ==
  /\ page' = updatePreview([page EXCEPT !.controls.seed = JsInt(random)], d3)
  /\ UNCHANGED <<d3, options, last, element, gens>>

\* Lines 488-501.
resetControls ==
  /\ page' = updatePreview([page EXCEPT !.controls = ControlDefaults], d3)
  /\ UNCHANGED <<d3, options, last, element, gens>>

\* Lines 434-443.
changeBodyBg(random) ==
  /\ page' = [page EXCEPT
                !.body = Attached(page.body, "dataUrl",
                                  Rendered(BodyConfig(JsInt(random)), d3))]
  /\ UNCHANGED <<d3, options, last, element, gens>>

\* Lines 445-452.
changeDemo1(random) ==
  /\ page' = [page EXCEPT
                !.demo1 = Attached(page.demo1, "dataUrl",
                                   Rendered(Demo1Config(JsInt(random)), d3))]
  /\ UNCHANGED <<d3, options, last, element, gens>>

\* Lines 458-470.
changeDemo2(random) ==
  /\ page' = [page EXCEPT
                !.demo2 = Attached(removeInlineWrapper(page.demo2), "inline",
                                   Rendered(Demo2Config(JsInt(random)), d3))]
  /\ UNCHANGED <<d3, options, last, element, gens>>

NextDemo ==
  \/ Load
  \/ \E n \in 1..MaxDensity : Input("density", n)
  \/ \E random \in RandomDraws : randomSeed(random)
  \/ resetControls
  \/ \E random \in RandomDraws : changeBodyBg(random)
  \/ \E random \in RandomDraws : changeDemo1(random)
  \/ \E random \in RandomDraws : changeDemo2(random)

SpecDemo == InitDemo /\ [][NextDemo]_vars

\* ------------------------------------------------------------------------
\* Properties
\* ------------------------------------------------------------------------
Called == last.op # "none"

Done == Called /\ ~last.result.threw

\* A step that makes a call, after an earlier call.
SecondCall == Called /\ last' # last

\* C1: generateSvg called twice with the same options object, explicit seed
\* included, against the same extraction, returns the same outcome twice
\* (the same document, or the same failure).
C1_Idempotent ==
  [][ ( /\ SecondCall
        /\ last'.options = last.options
        /\ last'.d3 = last.d3
        /\ Has(last.options, "seed") )
      => last'.result = last.result ]_vars

C1_Witness ==
  /\ Done
  /\ last.op = "generateSvg"
  /\ last.relation = "same"
  /\ Has(last.options, "seed")
  /\ last.options.seed = JsInt(0)
  /\ Len(last.result.svg.paths) >= 2

\* C2: with d3 missing every call fails before anything is computed: the
\* outcome holds no field, no threshold and no document, and no step taken
\* while d3 is missing changes the element, whatever the mode of apply.
C2_FailFast ==
  [][ d3 = "missing"
      => /\ element' = element
         /\ last' # last => last'.result = [threw |-> TRUE] ]_vars

C2_Witness ==
  /\ Called
  /\ last.op = "apply"
  /\ last.mode = "inline"
  /\ last.result.threw
  /\ element.children # <<>>

StrictlyInside(r) ==
  \A k \in 1..Len(r.levels) :
    /\ RLt(r.range[1], r.levels[k])
    /\ RLt(r.levels[k], r.range[2])

StrictlyIncreasing(levels) ==
  \A k \in 1..(Len(levels) - 1) : RLt(levels[k], levels[k + 1])

OnePerThreshold(r) ==
  /\ Len(r.contourData) = Len(r.levels)
  /\ \A n \in 1..Len(r.levels) : r.contourData[n].value = r.levels[n]

\* The document's paths are the contours' paths, in the contours' order.
PathsFollowContours(r) ==
  /\ Len(r.svg.paths) = Len(r.contourData)
  /\ \A n \in 1..Len(r.contourData) :
       r.svg.paths[n].d =
         contourToPath(r.contourData[n], r.scale[1], r.scale[2],
                       r.offset[1], r.offset[2])

\* C4 as claimed: a supplied density d gives exactly d thresholds and, with
\* one contour per threshold, exactly d paths in the contours' order.
C4_Original ==
  (Done /\ Has(last.options, "density"))
  => /\ Len(last.result.levels) = last.options.density
     /\ OnePerThreshold(last.result)
        => /\ Len(last.result.svg.paths) = last.options.density
           /\ PathsFollowContours(last.result)

\* C4 as amended: the same for a supplied density d >= 1.
C4_PositiveDensity ==
  (Done /\ Has(last.options, "density") /\ last.options.density >= 1)
  => /\ Len(last.result.levels) = last.options.density
     /\ OnePerThreshold(last.result)
        => /\ Len(last.result.svg.paths) = last.options.density
           /\ PathsFollowContours(last.result)

C4_Witness ==
  /\ Done
  /\ Has(last.options, "density")
  /\ last.options.density = MaxDensity
  /\ OnePerThreshold(last.result)
  /\ Len(last.result.svg.paths) = MaxDensity

\* C5: two calls whose options agree on everything but the presentation
\* keys, seed supplied, against the same extraction: the same field, the
\* same thresholds, the same geometry in every path, the same viewport and
\* clip region.
C5_StyleIndependent ==
  [][ ( /\ SecondCall
        /\ TerrainOf(last'.options) = TerrainOf(last.options)
        /\ last'.d3 = last.d3
        /\ Has(last.options, "seed")
        /\ ~last.result.threw )
      => /\ ~last'.result.threw
         /\ last'.result.field = last.result.field
         /\ last'.result.levels = last.result.levels
         /\ last'.result.contourData = last.result.contourData
         /\ last'.result.svg.viewBox = last.result.svg.viewBox
         /\ last'.result.svg.clipId = last.result.svg.clipId
         /\ Len(last'.result.svg.paths) = Len(last.result.svg.paths)
         /\ \A n \in 1..Len(last.result.svg.paths) :
              last'.result.svg.paths[n].d = last.result.svg.paths[n].d ]_vars

C5_Witness ==
  /\ Done
  /\ last.relation = "restyled"
  /\ Has(last.options, "seed")
  /\ Len(last.result.svg.paths) >= 2
  /\ last.result.svg.paths[1].stroke = "#ff0000"
  /\ last.result.svg.bgRect.fill = "#ffffff"

\* C6 as claimed: two documents generated from two different seeds carry
\* different clip-region identifiers.
C6_UniqueClipIds ==
  [][ ( /\ SecondCall
        /\ ~last.result.threw
        /\ ~last'.result.threw
        /\ last'.result.seed # last.result.seed )
      => last'.result.svg.clipId # last.result.svg.clipId ]_vars

\* The width and opacity asked of path n of count paths.
Interpolated(path, n, count, opts) ==
  IF count = 1
  THEN /\ path.strokeWidth = StrokeMinOf(opts)
       /\ path.strokeOpacity = OpacityMaxOf(opts)
  ELSE /\ RMul(R(count - 1), RSub(path.strokeWidth, StrokeMinOf(opts)))
          = RMul(R(n - 1), RSub(StrokeMaxOf(opts), StrokeMinOf(opts)))
       /\ RMul(R(count - 1), RSub(path.strokeOpacity, OpacityMinOf(opts)))
          = RMul(R(count - n),
                 RSub(OpacityMaxOf(opts), OpacityMinOf(opts)))

C8_ThickFirst ==
  ( /\ Done
    /\ RLt(StrokeMinOf(last.options), StrokeMaxOf(last.options))
    /\ RLt(OpacityMinOf(last.options), OpacityMaxOf(last.options)) )
  => \A n \in 1..(Len(last.result.svg.paths) - 1) :
       /\ RLe(last.result.svg.paths[n + 1].strokeWidth,
              last.result.svg.paths[n].strokeWidth)
       /\ RLe(last.result.svg.paths[n + 1].strokeOpacity,
              last.result.svg.paths[n].strokeOpacity)

RECURSIVE RingsOf(_, _, _)
\* The rings of polygons p .. p + count - 1 of a MultiPolygon, in input
\* order.
RingsOf(coordinates, p, count) ==
  IF count <= 0 THEN <<>>
  ELSE IF count = 1 THEN coordinates[p]
  ELSE RingsOf(coordinates, p, count \div 2)
       \o RingsOf(coordinates, p + (count \div 2), count - (count \div 2))

RECURSIVE CommandsOf(_, _, _)
\* How many commands rings a .. a + count - 1 take: a command per point and
\* a close per ring.
CommandsOf(rings, a, count) ==
  IF count <= 0 THEN 0
  ELSE IF count = 1 THEN Len(rings[a]) + 1
  ELSE CommandsOf(rings, a, count \div 2)
       + CommandsOf(rings, a + (count \div 2), count - (count \div 2))

\* Where ring k's commands start in the path: after the k - 1 rings before
\* it and their closes.
StartOf(rings, k) == 1 + CommandsOf(rings, 1, k - 1)

\* Ring k's commands stand together at their place: a move for the first
\* point, a line for each later point in order, then the close.
RingDrawn(d, rings, k, r) ==
  /\ \A i \in 1..Len(rings[k]) :
       /\ d[StartOf(rings, k) + i - 1].cmd = (IF i = 1 THEN "M" ELSE "L")
       /\ d[StartOf(rings, k) + i - 1].x
            = ToFixed3(RSub(RMul(rings[k][i][1], r.scale[1]), r.offset[1]))
       /\ d[StartOf(rings, k) + i - 1].y
            = ToFixed3(RSub(RMul(rings[k][i][2], r.scale[2]), r.offset[2]))
  /\ d[StartOf(rings, k) + Len(rings[k])].cmd = "Z"

PathDrawn(d, rings, r) ==
  /\ Len(d) = StartOf(rings, Len(rings) + 1) - 1
  /\ Cardinality({i \in 1..Len(d) : d[i].cmd = "Z"}) = Len(rings)
  /\ \A k \in 1..Len(rings) : RingDrawn(d, rings, k, r)

\* C9: every path is, ring after ring in input order, one move, a line per
\* later point, one close; as many closes as rings, and nothing of another
\* ring between a ring's move and its close.
C9_PathShape ==
  Done =>
    \A n \in 1..Len(last.result.contourData) :
      PathDrawn(last.result.svg.paths[n].d,
                RingsOf(last.result.contourData[n].coordinates, 1,
                        Len(last.result.contourData[n].coordinates)),
                last.result)

C9_Witness ==
  /\ Done
  /\ last.d3 = "pairs"
  /\ \E n \in 1..Len(last.result.contourData) :
       /\ Len(last.result.contourData[n].coordinates) >= 2
       /\ Len(last.result.contourData[n].coordinates[1]) = 2
       /\ Len(last.result.contourData[n].coordinates[1][2]) >= 2

\* C10: grid point (0, 0) lands on (-0.1 width, -0.1 height) and grid point
\* (gridWidth - 1, gridHeight - 1) on (1.1 width, 1.1 height), outside the
\* viewport on either side.
C10_Bleed ==
  Done =>
    LET w  == WidthOf(last.options)
        h  == HeightOf(last.options)
        x0 == RSub(RMul(R(0), last.result.scale[1]), last.result.offset[1])
        y0 == RSub(RMul(R(0), last.result.scale[2]), last.result.offset[2])
        x1 == RSub(RMul(R(GridWidthOf(last.options) - 1), last.result.scale[1]),
                   last.result.offset[1])
        y1 == RSub(RMul(R(GridHeightOf(last.options) - 1), last.result.scale[2]),
                   last.result.offset[2])
    IN  /\ x0 = RMul(Rat(-1, 10), w) /\ RLt(x0, R(0))
        /\ y0 = RMul(Rat(-1, 10), h) /\ RLt(y0, R(0))
        /\ x1 = RMul(Rat(11, 10), w) /\ RLt(w, x1)
        /\ y1 = RMul(Rat(11, 10), h) /\ RLt(h, y1)

C10_Witness ==
  /\ Done
  /\ Has(last.options, "width")
  /\ last.options.width = Rat(1, 2)
  /\ GridHeightOf(last.options) = MaxGrid

\* C11: a supplied seed, 0 and 2^32 - 1 included, is the seed the call
\* uses: the field is the field of that seed and the clip id is built from
\* that seed; only a call without a seed uses a drawn one.
C11_SeedAsGiven ==
  Done =>
    IF Has(last.options, "seed")
    THEN /\ last.result.seed = last.options.seed
         /\ last.result.field =
              generateField(GridWidthOf(last.options),
                            GridHeightOf(last.options), FreqOf(last.options),
                            AmplitudeOf(last.options), last.options.seed)
         /\ last.result.svg.clipId = <<"wlbg-", ClipNumber(last.options.seed)>>
    ELSE last.result.seed \in {JsInt(random) : random \in RandomDraws}

C11_Witness ==
  /\ Done
  /\ Has(last.options, "seed")
  /\ last.options.seed = JsInt(0)
  /\ last.result.seed = JsInt(0)
  /\ last.result.svg.clipId = <<"wlbg-", 0>>
  /\ Len(last.result.field) = 4

\* The three words a stream seeded with args.seed returns when nothing else
\* runs.
AloneWords(args) ==
  <<rnd(mulberry32(ToUint32(args.seed))).out,
    rnd(rnd(mulberry32(ToUint32(args.seed))).acc).out,
    rnd(rnd(rnd(mulberry32(ToUint32(args.seed))).acc).acc).out>>

AloneField(args) ==
  generateField(args.gridW, args.gridH, args.freq, args.amplitude, args.seed)

\* C12: with the statements of two generations interleaved in any order,
\* each draws the words it draws alone and returns the field it returns
\* alone, two generations with the same arguments return the same field,
\* and a step of one generation leaves the other's closure and arrays as
\* they were.
C12_OwnStream ==
  /\ [](\A g \in DOMAIN gens :
          /\ gens[g].outs
               = SubSeq(AloneWords(gens[g].args), 1, Len(gens[g].outs))
          /\ Returning(gens[g])
             => gens[g].values = AloneField(gens[g].args)
          /\ \A h \in DOMAIN gens :
               ( /\ Returning(gens[g]) /\ Returning(gens[h])
                 /\ gens[g].args = gens[h].args )
               => gens[g].values = gens[h].values)
  /\ [][ \A g \in DOMAIN gens, h \in DOMAIN gens :
           (g # h /\ gens'[g] # gens[g]) => gens'[h] = gens[h] ]_vars

C12_Witness ==
  /\ DOMAIN gens = Gens
  /\ gens[1].args = gens[2].args
  /\ Len(gens[1].outs) = 3
  /\ Len(gens[1].values) = 1
  /\ Len(gens[2].outs) = 2

RECURSIVE ReferenceState(_, _)
\* The reference Mulberry32's 32-bit state after n draws: 0x6D2B79F5 added
\* n times modulo 2^32.
ReferenceState(seedWord, n) ==
  IF n = 0 THEN seedWord
  ELSE Add32(ReferenceState(seedWord, n - 1), <<27947, 31221>>)

\* The reference Mulberry32's output for the state z: two rounds of
\* xor-shift-multiply keeping the low 32 bits, then a final xor-shift.
ReferenceMix(z) ==
  LET a == Imul(Xor32(z, Shr32(z, 15)), OrLow32(z, 1))
      b == Xor32(a, Add32(a, Imul(Xor32(a, Shr32(a, 7)), OrLow32(a, 61))))
  IN  Xor32(b, Shr32(b, 14))

\* Outputs of a reference implementation, first three draws, as halves.
KnownWords(seed) ==
  IF seed = JsInt(0)
  THEN << <<17460, 46178>>, <<21, 39991>>, <<14632, 23304>> >>
  ELSE IF seed = JsInt(12345)
  THEN << <<64207, 30917>>, <<20103, 20736>>, <<31732, 58098>> >>
  ELSE << <<58747, 62419>>, <<12417, 42404>>, <<46901, 912>> >>

\* C13: the n-th value of a stream is k / 2^32 with 0 <= k < 2^32, and k is
\* the reference Mulberry32's n-th output for the same uint32 seed, while
\* the closure's own accumulator is seed + n * 0x6D2B79F5, never reduced.
C13_Mulberry32 ==
  \A g \in DOMAIN gens :
    LET seedWord == ToUint32(gens[g].args.seed)
        n        == Len(gens[g].outs)
    IN  /\ \A m \in 1..n :
             /\ gens[g].outs[m][1] \in 0..(Half - 1)
             /\ gens[g].outs[m][2] \in 0..(Half - 1)
             /\ gens[g].outs[m] = ReferenceMix(ReferenceState(seedWord, m))
             /\ gens[g].outs[m] = KnownWords(gens[g].args.seed)[m]
        /\ gens[g].acc[2] = (seedWord[2] + n * 31221) % Half
        /\ gens[g].acc[1]
             = seedWord[1] + n * 27947 + ((seedWord[2] + n * 31221) \div Half)

C13_Witness ==
  \E g \in DOMAIN gens :
    /\ gens[g].args.seed = JsBig(FALSE, 0, Half - 1, Half - 1)
    /\ Len(gens[g].outs) = 3
    /\ gens[g].acc[1] >= Half
    /\ gens[g].outs[3] = <<46901, 912>>

\* What lines 60-66 give for the cell that lands at index n (from 0) of a
\* row-major array.
RowMajorValue(gen, n) ==
  CellValue(n % gen.args.gridW, n \div gen.args.gridW,
            gen.args.gridW, gen.args.gridH,
            RDiv(gen.args.freq, R(10)), gen.args.amplitude,
            Phase(gen.outs[1]), Phase(gen.outs[2]), Phase(gen.outs[3]))

\* C14: generateField draws three words and no more, all of them before it
\* pushes the first value; it returns gridWidth * gridHeight values, and the
\* value at index j * gridWidth + i is the one computed for column i, row j.
C14_RowMajor ==
  \A g \in DOMAIN gens :
    /\ Len(gens[g].outs) <= 3
    /\ gens[g].values # <<>> => Len(gens[g].outs) = 3
    /\ Len(gens[g].values) = gens[g].j * gens[g].args.gridW + gens[g].i
    /\ \A n \in 1..Len(gens[g].values) :
         gens[g].values[n] = RowMajorValue(gens[g], n - 1)
    /\ Returning(gens[g])
       => /\ Len(gens[g].outs) = 3
          /\ Len(gens[g].values) = gens[g].args.gridW * gens[g].args.gridH

C14_Witness ==
  \E g \in DOMAIN gens :
    /\ Returning(gens[g])
    /\ gens[g].args.gridW = MaxGrid
    /\ Len(gens[g].values) = MaxGrid * 2
    /\ gens[g].values[2] # gens[g].values[MaxGrid + 1]

\* C15: no call of generateSvg or apply changes the caller's options
\* object: after the call it has the keys and the values the call was given.
C15_OptionsReadOnly ==
  [][ /\ options' = options
      /\ last' # last => last'.options = options' ]_vars

C15_Witness ==
  /\ Done
  /\ last.op = "apply"
  /\ last.mode = "inline"
  /\ ~Has(last.options, "seed")
  /\ options = last.options
  /\ element.children # <<>>

\* Where threshold k stands within the field's range, from 0 at the minimum
\* to 1 at the maximum.
PositionOf(r, k) ==
  RDiv(RSub(r.levels[k], r.range[1]), RSub(r.range[2], r.range[1]))

ApplyStep == last'.op = "apply" /\ (last' # last \/ element' # element)

BackgroundKeys ==
  {"backgroundImage", "backgroundSize", "backgroundPosition",
   "backgroundRepeat"}

IsWrapper(child) == child.tag = "div"

\* C17: a successful inline apply puts one new wrapper, holding the document
\* of this call, before the children the element had, which keep their
\* order, so the wrappers stand newest first ahead of the other children;
\* a successful dataUrl apply sets the four background properties, leaves
\* every other style property and adds no child.
C17_WrapperFirst ==
  /\ [][ (ApplyStep /\ ~last'.result.threw)
         => IF last'.mode = "inline"
            THEN /\ Len(element'.children) = Len(element.children) + 1
                 /\ element'.children[1] = Wrapper(last'.result.svg)
                 /\ \A n \in 1..Len(element.children) :
                      element'.children[n + 1] = element.children[n]
            ELSE /\ element'.children = element.children
                 /\ element'.sheet = element.sheet
                 /\ DOMAIN element'.style
                      = DOMAIN element.style \cup BackgroundKeys
                 /\ \A k \in DOMAIN element.style \ BackgroundKeys :
                      element'.style[k] = element.style[k] ]_vars
  /\ [](\A n \in 1..Len(element.children) :
          IsWrapper(element.children[n])
          => \A m \in 1..n : IsWrapper(element.children[m]))

C17_Witness ==
  /\ Done
  /\ last.op = "apply"
  /\ last.mode = "inline"
  /\ Len(element.children) = 3
  /\ IsWrapper(element.children[1])
  /\ IsWrapper(element.children[2])
  /\ ~IsWrapper(element.children[3])
  /\ element.children[1].svg = last.result.svg
  /\ element.children[2].svg # last.result.svg

WrapperCount(el) ==
  Cardinality({n \in 1..Len(el.children) : Matches(el.children[n])})

\* C18 as claimed: with d3 loaded, once the load handler has run the
\* livePreview element holds exactly one wrapper whatever playground events
\* happened, and the demo2 element, once rendered by the load handler or by
\* changeDemo2, holds exactly one wrapper.
C18_OneWrapper ==
  d3 # "missing"
  => /\ page.loaded => WrapperCount(page.livePreview) = 1
     /\ WrapperCount(page.demo2) # 0 => WrapperCount(page.demo2) = 1

ZeroGiven(k) == Has(last.options, k) /\ RIsZero(last.options[k])

ZeroCount(k) == Has(last.options, k) /\ last.options[k] = 0

\* The field the call would compute with the given frequency and amplitude.
FieldWith(freq, amplitude) ==
  generateField(GridWidthOf(last.options), GridHeightOf(last.options),
                freq, amplitude, last.result.seed)

\* C19: a supplied 0 for strokeMin, strokeMax, opacityMin, opacityMax or
\* seed is used as given; a supplied 0 for width, height, gridWidth,
\* gridHeight, density, freq or amplitude gives way to 100, 56.25, 160, 90,
\* 10, 5 and 1; and with d3 loaded a negative density gives no threshold
\* and no path, and no error.
C19_ZeroDefaults ==
  /\ (Called /\ last.d3 # "missing") => ~last.result.threw
  /\ Done =>
       LET r == last.result
           n == Len(r.svg.paths)
       IN  /\ ZeroGiven("width") => r.svg.viewBox[1] = R(100)
           /\ ZeroGiven("height") => r.svg.viewBox[2] = Rat(5625, 100)
           /\ ZeroCount("gridWidth")
              => /\ Len(r.field) = 160 * GridHeightOf(last.options)
                 /\ r.scale[1]
                      = RDiv(RMul(WidthOf(last.options), Rat(12, 10)), R(159))
           /\ ZeroCount("gridHeight")
              => /\ Len(r.field) = GridWidthOf(last.options) * 90
                 /\ r.scale[2]
                      = RDiv(RMul(HeightOf(last.options), Rat(12, 10)), R(89))
           /\ ZeroCount("density") => Len(r.levels) = 10
           /\ ZeroGiven("freq")
              => r.field = FieldWith(R(5), AmplitudeOf(last.options))
           /\ ZeroGiven("amplitude")
              => r.field = FieldWith(FreqOf(last.options), R(1))
           /\ (ZeroGiven("strokeMin") /\ n >= 1)
              => RIsZero(r.svg.paths[1].strokeWidth)
           /\ (ZeroGiven("opacityMax") /\ n >= 1)
              => RIsZero(r.svg.paths[1].strokeOpacity)
           /\ (ZeroGiven("strokeMax") /\ n >= 2)
              => RIsZero(r.svg.paths[n].strokeWidth)
           /\ (ZeroGiven("opacityMin") /\ n >= 2)
              => RIsZero(r.svg.paths[n].strokeOpacity)
           /\ (Has(last.options, "seed") /\ last.options.seed = JsInt(0))
              => r.seed = JsInt(0)
           /\ (Has(last.options, "density") /\ last.options.density < 0)
              => Len(r.levels) = 0 /\ n = 0

C19_Witness ==
  /\ Done
  /\ ZeroCount("gridHeight")
  /\ Len(last.result.field) = 180
  /\ Len(last.result.svg.paths) = 2

\* A call with the seed replaced by one congruent to it modulo 2^32, after
\* a call that returned.
CongruentCall ==
  /\ SecondCall
  /\ Congruent(last.options, last'.options)
  /\ last'.d3 = last.d3
  /\ ~last.result.threw
  /\ ~last'.result.threw

SameGeometry(r1, r2) ==
  /\ r1.field = r2.field
  /\ r1.levels = r2.levels
  /\ Len(r1.svg.paths) = Len(r2.svg.paths)
  /\ \A n \in 1..Len(r1.svg.paths) : r1.svg.paths[n].d = r2.svg.paths[n].d

=============================================================================
